---- MODULE Spec2Model ----
(***************************************************************************)
(* Model of the inventory views: Reports and Dashboard                     *)
(* (src/src/components/Reports.tsx) and AddProduct (src/unnamed/part_000). *)
(*                                                                         *)
(* Products are records {id, name, sku, quantity, price, reorderLevel}.    *)
(* Quantities and reorder levels are non-negative integers.  Prices, the   *)
(* values quantity * price and their running sum are doubles, computed     *)
(* with the rounding of IEEE 754.  A comparison q <= r * 1.5 on integers   *)
(* q, r is written 2*q <= 3*r (r * 1.5 is exact in binary floating point). *)
(***************************************************************************)
EXTENDS Integers, Sequences, FiniteSets, TLC

VARIABLES
    products,       \* the products prop given to Dashboard and Reports
    processingId,   \* Dashboard: useState<string | null>(null)
    stockCalls,     \* the onUpdateStock(productId, quantity) calls not yet settled, in issue order
    isExporting,    \* Reports: useState<'pdf' | 'excel' | null>(null)
    exportCalls,    \* the kinds of the ExportService calls not yet settled, in issue order
    formData,       \* AddProduct: the five text fields
    loading,        \* AddProduct: useState(false)
    addCalls,       \* number of onAddProduct calls not yet settled
    dashboardView,  \* what Dashboard rendered last
    reportsView,    \* what Reports rendered last
    toast,          \* notifications shown by the last step
    last            \* the last handler step: its name, target and collaborator call

vars == <<products, processingId, stockCalls, isExporting, exportCalls,
          formData, loading, addCalls, dashboardView, reportsView, toast, last>>

(***************************************************************************)
(* Bounds of the model.                                                    *)
(***************************************************************************)
\* most collaborator calls of one kind outstanding at once
MaxPending == 2
\* the stock-update collaborator rejects an update that would exceed this
MaxQuantity == 11
\* longest product list drawn from every combination of the profiles
MaxProducts == 3
\* longest product list drawn as some low-stock products followed by stocked ones
MaxCount == 40
\* largest quantity and largest reorder level of the products drawn from the grid
MaxStock == 16
MaxReorder == 10

NULL == "null"

Max(a, b) == IF a >= b THEN a ELSE b

(***************************************************************************)
(* Status classification.                                                  *)
(***************************************************************************)
\* getProductStatus with the first comparison strict
getProductStatus_strict(product) ==
    IF product.quantity < product.reorderLevel THEN "Low Stock"
    ELSE IF 2 * product.quantity <= 3 * product.reorderLevel THEN "Medium"
    ELSE "Good"

\* getProductStatus with the second comparison turned round
getProductStatus_flipped(product) ==
    IF product.quantity <= product.reorderLevel THEN "Low Stock"
    ELSE IF 2 * product.quantity >= 3 * product.reorderLevel THEN "Medium"
    ELSE "Good"

\* Reports.getProductStatus
getProductStatus(product) ==
    IF product.quantity <= product.reorderLevel THEN "Low Stock"
    ELSE IF 2 * product.quantity <= 3 * product.reorderLevel THEN "Medium"
    ELSE "Good"

\* the Reports badge with the first comparison strict
ReportsBadge_strict(product) ==
    IF product.quantity < product.reorderLevel THEN "Low Stock"
    ELSE IF 2 * product.quantity <= 3 * product.reorderLevel THEN "Medium"
    ELSE "Good"

\* the status badge of a row of the Reports table
ReportsBadge(product) ==
    IF product.quantity <= product.reorderLevel THEN "Low Stock"
    ELSE IF 2 * product.quantity <= 3 * product.reorderLevel THEN "Medium"
    ELSE "Good"

\* the Dashboard badge with a strict comparison
DashboardBadge_strict(product) ==
    IF product.quantity < product.reorderLevel THEN "Low Stock"
    ELSE "OK"

\* the status badge of a row of the Dashboard table
DashboardBadge(product) ==
    IF product.quantity <= product.reorderLevel THEN "Low Stock"
    ELSE "OK"

\* the disabled attribute of the Sell button of a Dashboard row
SellDisabled(product) == product.quantity = 0

(***************************************************************************)
(* Aggregates.                                                             *)
(***************************************************************************)
\* products.filter(p => p.quantity <= p.reorderLevel)
LowStockFilter(ps) == SelectSeq(ps, LAMBDA p : p.quantity <= p.reorderLevel)

(***************************************************************************)
(* The numbers of the value computations (price, quantity * price and the  *)
(* running sum) are IEEE 754 doubles below 2^30.  A double is its exact    *)
(* binary expansion: NumLimbs limbs of 15 bits, least significant first,   *)
(* the first FractionLimbs of them below the binary point.                 *)
(***************************************************************************)
Base == 2^15
FractionLimbs == 5
NumLimbs == FractionLimbs + 2
Limbs == 1..NumLimbs

\* the double of a whole number
Whole(n) ==
    [ i \in Limbs |-> IF i = FractionLimbs + 1 THEN n % Base
                      ELSE IF i = FractionLimbs + 2 THEN n \div Base
                      ELSE 0 ]

\* the whole part of a double
WholePart(x) == x[FractionLimbs + 1] + Base * x[FractionLimbs + 2]

\* exact sum of two expansions
AddLimbs(x, y) ==
    LET carry[i \in 0..NumLimbs] ==
            IF i = 0 THEN 0 ELSE (x[i] + y[i] + carry[i - 1]) \div Base
    IN  [ i \in Limbs |-> (x[i] + y[i] + carry[i - 1]) % Base ]

\* exact product of an expansion and a whole number 0 <= m < 2^15
TimesLimbs(x, m) ==
    LET carry[i \in 0..NumLimbs] ==
            IF i = 0 THEN 0 ELSE (x[i] * m + carry[i - 1]) \div Base
    IN  [ i \in Limbs |-> (x[i] * m + carry[i - 1]) % Base ]

\* quotient and remainder of an expansion by a whole number 0 < n < 2^15
DivideLimbs(x, n) ==
    LET rem[i \in 1..(NumLimbs + 1)] ==
            IF i = NumLimbs + 1 THEN 0 ELSE (rem[i + 1] * Base + x[i]) % n
    IN  [ quotient  |-> [ i \in Limbs |-> (rem[i + 1] * Base + x[i]) \div n ],
          remainder |-> rem[1] ]

\* bit i of an expansion, bit 0 the least significant
Bit(x, i) == (x[(i \div 15) + 1] \div 2^(i % 15)) % 2

\* the position of the leading bit of a non-zero expansion
TopBit(x) ==
    LET h == CHOOSE i \in Limbs : x[i] # 0 /\ \A j \in (i + 1)..NumLimbs : x[j] = 0
        k == CHOOSE b \in 0..14 : x[h] \div 2^b = 1
    IN  15 * (h - 1) + k

\* whether every bit below bit i is 0
ZeroBelow(x, i) ==
    /\ \A j \in 1..(i \div 15) : x[j] = 0
    /\ x[(i \div 15) + 1] % 2^(i % 15) = 0

\* the expansion with the bits below bit i cleared
ClearBelow(x, i) ==
    [ j \in Limbs |-> IF j <= i \div 15 THEN 0
                      ELSE IF j = (i \div 15) + 1 THEN x[j] - (x[j] % 2^(i % 15))
                      ELSE x[j] ]

PowerOfTwo(i) == [ j \in Limbs |-> IF j = (i \div 15) + 1 THEN 2^(i % 15) ELSE 0 ]

\* the double nearest to an exact value, ties to even: the expansion x (followed
\* by further non-zero digits when sticky) rounded to 53 significant bits; an
\* expansion that fits the leading 53 bit positions is a double already
RoundToDouble(x, sticky) ==
    IF ZeroBelow(x, 15 * NumLimbs - 53) THEN x
    ELSE LET p == TopBit(x) - 52
         IN  IF p <= 0 THEN x
             ELSE LET half == Bit(x, p - 1) = 1
                      rest == ~ZeroBelow(x, p - 1) \/ sticky
                      up   == half /\ (rest \/ Bit(x, p) = 1)
                  IN  IF up THEN AddLimbs(ClearBelow(x, p), PowerOfTwo(p))
                      ELSE ClearBelow(x, p)

\* the double written as the decimal m / d, as a price of 0.1 is 1 / 10
Decimal(m, d) ==
    CHOOSE number \in
        { RoundToDouble(q.quotient, q.remainder # 0) :
              q \in { DivideLimbs(Whole(m), d) } } : TRUE

\* whether a double is a whole number
IsWhole(x) == \A i \in 1..FractionLimbs : x[i] = 0

\* the double x * m for a whole number m; whole numbers multiply exactly
TimesDouble53(x, m) ==
    IF IsWhole(x) THEN Whole(WholePart(x) * m)
    ELSE RoundToDouble(TimesLimbs(x, m), FALSE)

\* the double x + y; whole numbers add exactly
PlusDouble53(x, y) ==
    IF IsWhole(x) /\ IsWhole(y) THEN Whole(WholePart(x) + WholePart(y))
    ELSE RoundToDouble(AddLimbs(x, y), FALSE)

\* quantity * price: the quantity is a whole number
Times(quantity, price) ==
    CHOOSE number \in { TimesDouble53(x, quantity) : x \in {price} } : TRUE

\* sum + value
Plus(sum, value) ==
    CHOOSE number \in { PlusDouble53(x, y) : x \in {sum}, y \in {value} } : TRUE

\* products.reduce((sum, p) => sum + (p.quantity * p.price), 0)
RECURSIVE ReduceValue(_, _)
ReduceValue(ps, sum) ==
    IF ps = <<>> THEN sum
    ELSE ReduceValue(Tail(ps), Plus(sum, Times(Head(ps).quantity, Head(ps).price)))

TotalValue(ps) == ReduceValue(ps, Whole(0))

(***************************************************************************)
(* totalValue.toLocaleString(): the number with at most three fraction     *)
(* digits and its whole part in groups of three (the en-US default).  The  *)
(* digits rounded are those of the shortest decimal that reads back as the *)
(* double, and a tie goes away from zero.  For a double below 2^29 that    *)
(* decimal is a tie exactly when the double is the nearest double to an    *)
(* odd number of half thousandths; otherwise it lies on the same side of   *)
(* the tie as the double's exact value.  A double that is nearest to a tie *)
(* from below is within 2^-25 of it, so its thousandths go on as .0111110  *)
(* in binary at the least.                                                 *)
(***************************************************************************)
\* the part of a double below the binary point
FractionPart(x) == [ i \in Limbs |-> IF i <= FractionLimbs THEN x[i] ELSE 0 ]

\* the number of thousandths the formatter shows for x
Thousandths(x) ==
    LET scaled == TimesLimbs(FractionPart(x), 1000)
        n      == 1000 * WholePart(x) + WholePart(scaled)
        up     == \/ Bit(scaled, 15 * FractionLimbs - 1) = 1
                  \/ /\ \A b \in 2..6 : Bit(scaled, 15 * FractionLimbs - b) = 1
                     /\ x = Decimal(2 * n + 1, 2000)
    IN  IF IsWhole(x) THEN 1000 * WholePart(x)
        ELSE IF up THEN n + 1 ELSE n

\* three digits of a group after the first
Pad3(k) ==
    IF k < 10 THEN "00" \o ToString(k)
    ELSE IF k < 100 THEN "0" \o ToString(k)
    ELSE ToString(k)

\* a whole number with a comma between its groups of three digits
RECURSIVE Grouped(_)
Grouped(n) ==
    IF n < 1000 THEN ToString(n)
    ELSE Grouped(n \div 1000) \o "," \o Pad3(n % 1000)

\* the fraction digits of k thousandths, without trailing zeros
FractionDigits(k) ==
    IF k = 0 THEN ""
    ELSE IF k % 100 = 0 THEN "." \o ToString(k \div 100)
    ELSE IF k % 10 = 0 THEN "." \o (IF k < 100 THEN "0" ELSE "") \o ToString(k \div 10)
    ELSE "." \o Pad3(k)

toLocaleString(x) ==
    CHOOSE text \in
        { Grouped(t \div 1000) \o FractionDigits(t % 1000) :
              t \in { Thousandths(v) : v \in {x} } } : TRUE

(***************************************************************************)
(* Stock Health is computed in IEEE 754 double arithmetic:                 *)
(* Math.round(((n - l) / n) * 100).  A positive double is a record         *)
(* [a, b, c, exp] standing for (a * 2^36 + b * 2^18 + c) * 2^exp: its      *)
(* 53-bit significand in three limbs of 18 bits, with 2^16 <= a < 2^17.    *)
(***************************************************************************)
Limb == 2^18

Double(a, b, c, exp) == [a |-> a, b |-> b, c |-> c, exp |-> exp]

\* round to nearest, ties to even; half says where the discarded part lies
\* relative to half a unit of the last kept bit
RoundNearestEven(a, b, c, exp, half) ==
    IF half = "above" \/ (half = "tie" /\ c % 2 = 1)
    THEN IF c + 1 < Limb THEN Double(a, b, c + 1, exp)
         ELSE IF b + 1 < Limb THEN Double(a, b + 1, 0, exp)
         ELSE IF a + 1 < 2^17 THEN Double(a + 1, 0, 0, exp)
         ELSE Double(2^16, 0, 0, exp + 1)
    ELSE Double(a, b, c, exp)

\* the smallest s with k * 2^s >= n
RECURSIVE ShiftFor(_, _)
ShiftFor(k, n) == IF k >= n THEN 0 ELSE 1 + ShiftFor(2 * k, n)

\* the double k / n for integers 0 < k <= n < 2^13: long division of
\* k * 2^s * 2^52 by n, limb by limb, where k * 2^s / n lies in [1, 2)
DivideDouble(k, n) ==
    LET s  == ShiftFor(k, n)
        a  == (k * 2^s * 2^16) \div n
        r1 == (k * 2^s * 2^16) % n
        b  == (r1 * Limb) \div n
        r2 == (r1 * Limb) % n
        c  == (r2 * Limb) \div n
        r3 == (r2 * Limb) % n
        half == IF 2 * r3 > n THEN "above" ELSE IF 2 * r3 = n THEN "tie" ELSE "below"
    IN  RoundNearestEven(a, b, c, 0 - s - 52, half)

\* by how many bits t exceeds 17 bits
ExtraBits(t) == CHOOSE d \in 0..13 : t < 2^(17 + d) /\ (d = 0 \/ t >= 2^(16 + d))

\* the double x * m for an integer 1 <= m < 2^7: the exact product limb by limb,
\* then its leading 53 bits, rounded
TimesDouble(x, m) ==
    LET tc == x.c * m
        tb == x.b * m + (tc \div Limb)
        ta == x.a * m + (tb \div Limb)
        c1 == tc % Limb
        b1 == tb % Limb
        Leading(d) ==
            LET low == c1 % 2^d
                half == IF d = 0 \/ 2 * low < 2^d THEN "below"
                        ELSE IF 2 * low = 2^d THEN "tie"
                        ELSE "above"
            IN  RoundNearestEven(ta \div 2^d,
                                 (b1 \div 2^d) + (ta % 2^d) * 2^(18 - d),
                                 (c1 \div 2^d) + (b1 % 2^d) * 2^(18 - d),
                                 x.exp + d, half)
    IN  CHOOSE y \in {Leading(d) : d \in {ExtraBits(ta)}} : TRUE

\* Math.round(x) for a double 0 < x < 2^16: the integer part, plus one when the
\* fraction is at least one half; frac is the number of fraction bits
MathRound(x) ==
    LET frac == 0 - x.exp
    IN  IF frac >= 54 THEN 0
        ELSE IF frac = 53 THEN 1
        ELSE (x.a \div 2^(frac - 36)) + ((x.a \div 2^(frac - 37)) % 2)

\* Math.round(((total - low) / total) * 100) for total > 0
HealthPercent(total, low) ==
    IF total - low = 0 THEN 0
    ELSE CHOOSE percent \in
             {MathRound(product) : product \in
                 {TimesDouble(quotient, 100) : quotient \in
                     {DivideDouble(total - low, total)}}} : TRUE

\* Math.round(((products.length - lowStockProducts.length) / products.length) * 100)
StockHealth(ps) == HealthPercent(Len(ps), Len(LowStockFilter(ps)))

\* Dashboard: summary cards and table rows
RenderDashboard(ps) ==
    [ totalProducts |-> Len(ps),
      lowStockItems |-> Len(LowStockFilter(ps)),
      totalValue    |-> toLocaleString(TotalValue(ps)),
      rows          |-> [ i \in 1..Len(ps) |->
                            [ id           |-> ps[i].id,
                              quantity     |-> ps[i].quantity,
                              status       |-> DashboardBadge(ps[i]),
                              sellDisabled |-> SellDisabled(ps[i]) ] ] ]

\* Reports: export buttons, summary statistics (rendered only for a non-empty
\* list: <<>> stands for the block not being rendered), table rows, alert
RenderReports(ps, exporting) ==
    [ pdfDisabled   |-> (Len(ps) = 0 \/ exporting = "pdf"),
      excelDisabled |-> (Len(ps) = 0 \/ exporting = "excel"),
      summary       |-> IF Len(ps) > 0
                        THEN << [ totalProducts |-> Len(ps),
                                  totalValue    |-> toLocaleString(TotalValue(ps)),
                                  lowStockItems |-> Len(LowStockFilter(ps)),
                                  stockHealth   |-> StockHealth(ps) ] >>
                        ELSE <<>>,
      rows          |-> [ i \in 1..Len(ps) |->
                            [ id       |-> ps[i].id,
                              quantity |-> ps[i].quantity,
                              status   |-> ReportsBadge(ps[i]) ] ],
      lowStockAlert |-> Len(LowStockFilter(ps)) ]

(***************************************************************************)
(* Dashboard: the elements of a table row and the calls they make on the   *)
(* host.  A click changes no state of Dashboard.  A button rendered with   *)
(* the disabled attribute receives no click.                               *)
(***************************************************************************)
NavigateCall(productId, action) ==
    [fn |-> "onNavigateToUpdateStock", productId |-> productId, action |-> action]

ViewCall(productId) == [fn |-> "onViewProduct", productId |-> productId]

\* an onClick of row i that makes the given calls
Click(op, i, call) ==
    /\ last' = [op |-> op, target |-> products[i].id, call |-> call]
    /\ toast' = <<>>
    /\ UNCHANGED <<products, processingId, stockCalls, isExporting, exportCalls,
                   formData, loading, addCalls, dashboardView, reportsView>>

\* <tr onClick={() => onViewProduct(product.id)}>
RowClick(i) == Click("rowClick", i, <<ViewCall(products[i].id)>>)

\* <td onClick={(e) => e.stopPropagation()}> around the buttons
ActionsCellClick(i) == Click("actionsCellClick", i, <<>>)

\* the onClick of the Restock button
RestockButtonClick(i) ==
    Click("restockClick", i, <<NavigateCall(products[i].id, "restock")>>)

\* the onClick of the Sell button, rendered with disabled={product.quantity === 0}
SellButtonClick(i) ==
    /\ ~SellDisabled(products[i])
    /\ Click("sellClick", i, <<NavigateCall(products[i].id, "sell")>>)

\* the onClick of the View button
ViewButtonClick(i) == Click("viewClick", i, <<ViewCall(products[i].id)>>)

(***************************************************************************)
(* Dashboard: handleRestock and handleSell.  Dashboard defines them and no *)
(* element it renders refers to them; they are steps only where they are   *)
(* called directly (HandlersNext).                                         *)
(***************************************************************************)
\* ids the handlers are invoked with: the listed products and one unlisted id
UnknownId == "p9"

\* products.find(p => p.id === productId): the first index with that id, 0 if none
FindProduct(ps, productId) ==
    IF \E i \in 1..Len(ps) : ps[i].id = productId
    THEN CHOOSE i \in 1..Len(ps) :
             /\ ps[i].id = productId
             /\ \A j \in 1..(i - 1) : ps[j].id # productId
    ELSE 0

\* Math.max(10, product.reorderLevel * 2)
RestockAmount(product) == Max(10, product.reorderLevel * 2)

StockCall(productId, quantity) == [productId |-> productId, quantity |-> quantity]

\* the calls without the one at index i, which settled
RemoveAt(calls, i) == SubSeq(calls, 1, i - 1) \o SubSeq(calls, i + 1, Len(calls))

\* const handleRestock = async (productId) => { ... } up to its await
HandleRestock(productId) ==
    LET i == FindProduct(products, productId) IN
    /\ Len(stockCalls) < MaxPending
    /\ IF i # 0
       THEN /\ processingId' = productId
            /\ stockCalls' = Append(stockCalls, StockCall(productId, RestockAmount(products[i])))
            /\ last' = [op |-> "handleRestock", target |-> productId,
                        call |-> <<StockCall(productId, RestockAmount(products[i]))>>]
       ELSE /\ UNCHANGED <<processingId, stockCalls>>
            /\ last' = [op |-> "handleRestock", target |-> productId, call |-> <<>>]
    /\ toast' = <<>>
    /\ UNCHANGED <<products, isExporting, exportCalls, formData, loading, addCalls,
                   dashboardView, reportsView>>

\* handleSell taking the unit off the product object itself (product.quantity -= 1)
HandleSell_optimistic(productId) ==
    LET i == FindProduct(products, productId) IN
    /\ Len(stockCalls) < MaxPending
    /\ IF i # 0 /\ products[i].quantity > 0
       THEN /\ processingId' = productId
            /\ products' = [products EXCEPT ![i].quantity = @ - 1]
            /\ stockCalls' = Append(stockCalls, StockCall(productId, -1))
            /\ last' = [op |-> "handleSell", target |-> productId,
                        call |-> <<StockCall(productId, -1)>>]
       ELSE /\ UNCHANGED <<products, processingId, stockCalls>>
            /\ last' = [op |-> "handleSell", target |-> productId, call |-> <<>>]
    /\ toast' = <<>>
    /\ UNCHANGED <<isExporting, exportCalls, formData, loading, addCalls,
                   dashboardView, reportsView>>

\* const handleSell = async (productId) => { ... } up to its await
HandleSell(productId) ==
    LET i == FindProduct(products, productId) IN
    /\ Len(stockCalls) < MaxPending
    /\ IF i # 0 /\ products[i].quantity > 0
       THEN /\ processingId' = productId
            /\ stockCalls' = Append(stockCalls, StockCall(productId, -1))
            /\ last' = [op |-> "handleSell", target |-> productId,
                        call |-> <<StockCall(productId, -1)>>]
       ELSE /\ UNCHANGED <<processingId, stockCalls>>
            /\ last' = [op |-> "handleSell", target |-> productId, call |-> <<>>]
    /\ toast' = <<>>
    /\ UNCHANGED <<products, isExporting, exportCalls, formData, loading, addCalls,
                   dashboardView, reportsView>>

\* the collaborator behind onUpdateStock applies a signed adjustment; it fails when
\* the product is unknown or the resulting quantity would be negative (or, in this
\* model, above MaxQuantity)
UpdateStockApplies(ps, call) ==
    LET i == FindProduct(ps, call.productId) IN
    /\ i # 0
    /\ ps[i].quantity + call.quantity >= 0
    /\ ps[i].quantity + call.quantity <= MaxQuantity

ApplyUpdate(ps, call) ==
    LET i == FindProduct(ps, call.productId) IN
    [ps EXCEPT ![i].quantity = @ + call.quantity]

\* the parent re-renders both views with the new product list
Rerender(ps, exporting) ==
    /\ dashboardView' = RenderDashboard(ps)
    /\ reportsView' = RenderReports(ps, exporting)

\* the adjustments the host applies to a product's stock
HostDeltas == {-1, 1}

\* the host's collaborator applied an adjustment and passes the new product list
\* to the views
ProductsUpdated(call) ==
    /\ UpdateStockApplies(products, call)
    /\ \E ps \in {ApplyUpdate(products, call)} :
           /\ products' = ps
           /\ Rerender(ps, isExporting)
    /\ toast' = <<>>
    /\ last' = [op |-> "productsUpdated", target |-> call.productId, call |-> <<>>]
    /\ UNCHANGED <<processingId, stockCalls, isExporting, exportCalls, formData,
                   loading, addCalls>>

Success(message) == [type |-> "success", message |-> message]
Failure(message) == [type |-> "error", message |-> message]

\* handleRestock after its await resolved: toast.success, finally setProcessingId(null)
RestockResolved(i) ==
    LET call == stockCalls[i] IN
    /\ call.quantity > 0
    /\ UpdateStockApplies(products, call)
    /\ products' = ApplyUpdate(products, call)
    /\ stockCalls' = RemoveAt(stockCalls, i)
    /\ toast' = << Success("Successfully restocked " \o ToString(call.quantity)
                             \o " units!") >>
    /\ processingId' = NULL
    /\ last' = [op |-> "restockResolved", target |-> call.productId, call |-> <<>>]
    /\ Rerender(products', isExporting)
    /\ UNCHANGED <<isExporting, exportCalls, formData, loading, addCalls>>

\* handleRestock after its await rejected, without the finally block
RestockRejected_nofinally(i) ==
    LET call == stockCalls[i] IN
    /\ call.quantity > 0
    /\ stockCalls' = RemoveAt(stockCalls, i)
    /\ toast' = << Failure("Failed to restock. Please try again.") >>
    /\ last' = [op |-> "restockRejected", target |-> call.productId, call |-> <<>>]
    /\ UNCHANGED <<products, processingId, isExporting, exportCalls, formData, loading,
                   addCalls, dashboardView, reportsView>>

\* handleRestock after its await rejected: catch toast.error, finally setProcessingId(null)
RestockRejected(i) ==
    LET call == stockCalls[i] IN
    /\ call.quantity > 0
    /\ stockCalls' = RemoveAt(stockCalls, i)
    /\ toast' = << Failure("Failed to restock. Please try again.") >>
    /\ processingId' = NULL
    /\ last' = [op |-> "restockRejected", target |-> call.productId, call |-> <<>>]
    /\ UNCHANGED <<products, isExporting, exportCalls, formData, loading, addCalls,
                   dashboardView, reportsView>>

\* handleSell after its await resolved: toast.success, finally setProcessingId(null)
SellResolved(i) ==
    LET call == stockCalls[i] IN
    /\ call.quantity < 0
    /\ UpdateStockApplies(products, call)
    /\ products' = ApplyUpdate(products, call)
    /\ stockCalls' = RemoveAt(stockCalls, i)
    /\ toast' = << Success("Successfully sold 1 unit!") >>
    /\ processingId' = NULL
    /\ last' = [op |-> "sellResolved", target |-> call.productId, call |-> <<>>]
    /\ Rerender(products', isExporting)
    /\ UNCHANGED <<isExporting, exportCalls, formData, loading, addCalls>>

\* handleSell after its await rejected: catch toast.error, finally setProcessingId(null)
SellRejected(i) ==
    LET call == stockCalls[i] IN
    /\ call.quantity < 0
    /\ stockCalls' = RemoveAt(stockCalls, i)
    /\ toast' = << Failure("Failed to sell. Please try again.") >>
    /\ processingId' = NULL
    /\ last' = [op |-> "sellRejected", target |-> call.productId, call |-> <<>>]
    /\ UNCHANGED <<products, isExporting, exportCalls, formData, loading, addCalls,
                   dashboardView, reportsView>>

(***************************************************************************)
(* Reports: exportToPDF, exportToExcel and the export collaborator.        *)
(***************************************************************************)
\* the exportData object built by exportToPDF / exportToExcel (generatedDate is a
\* clock reading and is left out)
ExportData(ps) ==
    [ products         |-> ps,
      lowStockProducts |-> LowStockFilter(ps),
      totalValue       |-> TotalValue(ps) ]

\* a call of ExportService.exportToPDF / exportToExcel with its argument
ExportCall(kind, ps) == [kind |-> kind, data |-> ExportData(ps)]

\* what a rejected export promise carries: an Error with its message, or a value
\* that is not an Error
RejectReasons ==
    { [isError |-> TRUE, message |-> "Popup blocked"],
      [isError |-> FALSE, message |-> ""] }

\* the catch block showing the generic message whatever was thrown
ErrorMessage_generic(error, generic) == generic

\* error instanceof Error ? error.message : generic
ErrorMessage(error, generic) == IF error.isError THEN error.message ELSE generic

\* const exportToPDF = async () => { ... } up to its await
ExportToPDF ==
    /\ IF isExporting # NULL
       THEN /\ UNCHANGED <<isExporting, exportCalls, reportsView>>
            /\ last' = [op |-> "exportToPDF", target |-> "pdf", call |-> <<>>]
       ELSE /\ isExporting' = "pdf"
            /\ exportCalls' = Append(exportCalls, "pdf")
            /\ reportsView' = RenderReports(products, "pdf")
            /\ last' = [op |-> "exportToPDF", target |-> "pdf",
                        call |-> <<ExportCall("pdf", products)>>]
    /\ toast' = <<>>
    /\ UNCHANGED <<products, processingId, stockCalls, formData, loading, addCalls,
                   dashboardView>>

\* exportToExcel returning early only while an Excel export is running, as its
\* button is disabled
ExportToExcel_samekind ==
    /\ IF isExporting = "excel"
       THEN /\ UNCHANGED <<isExporting, exportCalls, reportsView>>
            /\ last' = [op |-> "exportToExcel", target |-> "excel", call |-> <<>>]
       ELSE /\ isExporting' = "excel"
            /\ exportCalls' = Append(exportCalls, "excel")
            /\ reportsView' = RenderReports(products, "excel")
            /\ last' = [op |-> "exportToExcel", target |-> "excel",
                        call |-> <<ExportCall("excel", products)>>]
    /\ toast' = <<>>
    /\ UNCHANGED <<products, processingId, stockCalls, formData, loading, addCalls,
                   dashboardView>>

\* const exportToExcel = async () => { ... } up to its await
ExportToExcel ==
    /\ IF isExporting # NULL
       THEN /\ UNCHANGED <<isExporting, exportCalls, reportsView>>
            /\ last' = [op |-> "exportToExcel", target |-> "excel", call |-> <<>>]
       ELSE /\ isExporting' = "excel"
            /\ exportCalls' = Append(exportCalls, "excel")
            /\ reportsView' = RenderReports(products, "excel")
            /\ last' = [op |-> "exportToExcel", target |-> "excel",
                        call |-> <<ExportCall("excel", products)>>]
    /\ toast' = <<>>
    /\ UNCHANGED <<products, processingId, stockCalls, formData, loading, addCalls,
                   dashboardView>>

\* the rest of exportToPDF / exportToExcel once the await resolved
ExportResolved(i, kind, message) ==
    /\ exportCalls[i] = kind
    /\ exportCalls' = RemoveAt(exportCalls, i)
    /\ toast' = << Success(message) >>
    /\ isExporting' = NULL
    /\ reportsView' = RenderReports(products, NULL)
    /\ last' = [op |-> "exportResolved", target |-> kind, call |-> <<>>]
    /\ UNCHANGED <<products, processingId, stockCalls, formData, loading, addCalls,
                   dashboardView>>

\* the rest of exportToPDF / exportToExcel once the await rejected with error
ExportRejected(i, kind, error, generic) ==
    /\ exportCalls[i] = kind
    /\ exportCalls' = RemoveAt(exportCalls, i)
    /\ toast' = << Failure(ErrorMessage(error, generic)) >>
    /\ isExporting' = NULL
    /\ reportsView' = RenderReports(products, NULL)
    /\ last' = [op |-> "exportRejected", target |-> kind, call |-> <<>>]
    /\ UNCHANGED <<products, processingId, stockCalls, formData, loading, addCalls,
                   dashboardView>>

PDFResolved(i) == ExportResolved(i, "pdf", "PDF report exported successfully!")

PDFRejected(i, error) ==
    ExportRejected(i, "pdf", error, "Failed to export PDF. Please try again.")

ExcelResolved(i) == ExportResolved(i, "excel", "Excel report exported successfully!")

ExcelRejected(i, error) ==
    ExportRejected(i, "excel", error, "Failed to export Excel. Please try again.")

(***************************************************************************)
(* AddProduct: text parsing, handleInputChange, handleSubmit.              *)
(* A text is a sequence of characters: an ASCII character is the string of *)
(* that character, a character outside ASCII is the string that names its  *)
(* code point ("U+00A0", "U+20AC").  A JavaScript number is a record: NaN,  *)
(* or the decimal m / 10^e with e >= 0.  The texts are decimal: no hex      *)
(* prefix, no "Infinity", and values of at most nine digits.               *)
(***************************************************************************)
NotANumber == [nan |-> TRUE, m |-> 0, e |-> 0]
Number(m, e) == [nan |-> FALSE, m |-> m, e |-> e]

Digits == {"0", "1", "2", "3", "4", "5", "6", "7", "8", "9"}

DigitValue(c) ==
    CASE c = "0" -> 0 [] c = "1" -> 1 [] c = "2" -> 2 [] c = "3" -> 3 [] c = "4" -> 4
      [] c = "5" -> 5 [] c = "6" -> 6 [] c = "7" -> 7 [] c = "8" -> 8 [] c = "9" -> 9

\* the white space parseInt and parseFloat skip (StrWhiteSpaceChar): tab, line
\* feed, vertical tab, form feed, carriage return, the blank, the no-break space,
\* the space separators of Unicode, the line and paragraph separators and the
\* byte order mark
WhiteSpace ==
    {"\t", "\n", "", "\f", "\r", " ",
     "U+00A0", "U+1680", "U+2000", "U+2001", "U+2002", "U+2003", "U+2004",
     "U+2005", "U+2006", "U+2007", "U+2008", "U+2009", "U+200A", "U+2028",
     "U+2029", "U+202F", "U+205F", "U+3000", "U+FEFF"}

\* the text without its leading white space
RECURSIVE TrimStart(_)
TrimStart(s) ==
    IF s # <<>> /\ Head(s) \in WhiteSpace THEN TrimStart(Tail(s)) ELSE s

\* the number of leading decimal digits of s
RECURSIVE DigitRun(_)
DigitRun(s) ==
    IF s # <<>> /\ Head(s) \in Digits THEN 1 + DigitRun(Tail(s)) ELSE 0

\* the value of the first n characters of s, all digits, after acc
RECURSIVE DigitsValue(_, _, _)
DigitsValue(s, n, acc) ==
    IF n = 0 THEN acc
    ELSE DigitsValue(Tail(s), n - 1, 10 * acc + DigitValue(Head(s)))

Drop(s, n) == SubSeq(s, n + 1, Len(s))

Signed(s) == s # <<>> /\ Head(s) \in {"+", "-"}
Sign(s) == IF s # <<>> /\ Head(s) = "-" THEN -1 ELSE 1
Unsigned(s) == IF Signed(s) THEN Tail(s) ELSE s

\* parseInt(text): white space, a sign, then the longest run of decimal digits;
\* NaN when there is no digit
parseInt(text) ==
    LET s == Unsigned(TrimStart(text))
        n == DigitRun(s)
    IN  IF n = 0 THEN NotANumber
        ELSE Number(Sign(TrimStart(text)) * DigitsValue(s, n, 0), 0)

\* m / 10^e without trailing zeros in the fraction
RECURSIVE Normalise(_, _)
Normalise(m, e) ==
    IF e > 0 /\ m % 10 = 0 THEN Normalise(m \div 10, e - 1) ELSE Number(m, e)

RECURSIVE Pow10(_)
Pow10(k) == IF k = 0 THEN 1 ELSE 10 * Pow10(k - 1)

\* parseFloat(text): white space, a sign, then the longest prefix of the form
\* digits, digits "." digits or "." digits, with an exponent part ("e" or "E",
\* a sign, digits) when one follows; NaN when there is none
parseFloat(text) ==
    LET t     == TrimStart(text)
        s     == Unsigned(t)
        n     == DigitRun(s)
        rest  == Drop(s, n)
        dot   == rest # <<>> /\ Head(rest) = "."
        f     == IF dot THEN DigitRun(Tail(rest)) ELSE 0
        int   == DigitsValue(s, n, 0)
        mant  == IF f = 0 THEN int ELSE DigitsValue(Tail(rest), f, int)
        after == IF dot THEN Drop(Tail(rest), f) ELSE rest
        part  == IF after # <<>> /\ Head(after) \in {"e", "E"} THEN Tail(after) ELSE <<>>
        k     == DigitRun(Unsigned(part))
        exp   == Sign(part) * DigitsValue(Unsigned(part), k, 0)
    IN  IF n = 0 /\ f = 0 THEN NotANumber
        ELSE IF exp >= f THEN Number(Sign(t) * mant * Pow10(exp - f), 0)
        ELSE Normalise(Sign(t) * mant, f - exp)

\* useState({name: '', sku: '', quantity: '', price: '', reorderLevel: ''})
EmptyForm == [name |-> <<>>, sku |-> <<>>, quantity |-> <<>>, price |-> <<>>,
              reorderLevel |-> <<>>]

FieldNames == {"name", "sku", "quantity", "price", "reorderLevel"}

\* the texts the form state holds when handleSubmit runs: handleInputChange stores
\* e.target.value as it comes, and handleSubmit reads formData without looking at
\* the inputs' type, min, step or required attributes
NameTexts == { <<"B", "o", "l", "t">> }
SkuTexts == { <<"P", "-", "1">> }
NumberTexts ==
    { <<"a", "b", "c">>, <<"1", "2">>, <<"3", ".", "7", "0">>, <<".", "5">>,
      <<"-", "4">>, <<" ", "1", "2", "p", "x">>, <<"U+00A0", "1", "e", "3">> }

TextsFor(name) ==
    CASE name = "name" -> NameTexts
      [] name = "sku" -> SkuTexts
      [] OTHER -> NumberTexts

\* setFormData(prev => ({...prev, [name]: value}))
HandleInputChange(name, value) ==
    /\ formData' = [formData EXCEPT ![name] = value]
    /\ toast' = <<>>
    /\ last' = [op |-> "handleInputChange", target |-> name, call |-> <<>>]
    /\ UNCHANGED <<products, processingId, stockCalls, isExporting, exportCalls,
                   loading, addCalls, dashboardView, reportsView>>

\* the product object built by handleSubmit
Draft(form) ==
    [ name         |-> form.name,
      sku          |-> form.sku,
      quantity     |-> parseInt(form.quantity),
      price        |-> parseFloat(form.price),
      reorderLevel |-> parseInt(form.reorderLevel) ]

\* the disabled attribute of the submit button
SubmitDisabled == loading

\* const handleSubmit = async (e) => { ... } up to its await
HandleSubmit ==
    /\ addCalls < MaxPending
    /\ loading' = TRUE
    /\ addCalls' = addCalls + 1
    /\ toast' = <<>>
    /\ last' = [op |-> "handleSubmit", target |-> "form", call |-> <<Draft(formData)>>]
    /\ UNCHANGED <<products, processingId, stockCalls, isExporting, exportCalls,
                   formData, dashboardView, reportsView>>

\* handleSubmit after its await resolved: reset form, toast.success, finally
SubmitResolved ==
    /\ addCalls > 0
    /\ addCalls' = addCalls - 1
    /\ formData' = EmptyForm
    /\ toast' = << Success("Product added successfully!") >>
    /\ loading' = FALSE
    /\ last' = [op |-> "submitResolved", target |-> "form", call |-> <<>>]
    /\ UNCHANGED <<products, processingId, stockCalls, isExporting, exportCalls,
                   dashboardView, reportsView>>

\* handleSubmit after its await rejected, with the form reset moved to finally
SubmitRejected_reset ==
    /\ addCalls > 0
    /\ addCalls' = addCalls - 1
    /\ formData' = EmptyForm
    /\ toast' = << Failure("Failed to add product. Please try again.") >>
    /\ loading' = FALSE
    /\ last' = [op |-> "submitRejected", target |-> "form", call |-> <<>>]
    /\ UNCHANGED <<products, processingId, stockCalls, isExporting, exportCalls,
                   dashboardView, reportsView>>

\* handleSubmit after its await rejected: catch toast.error, finally
SubmitRejected ==
    /\ addCalls > 0
    /\ addCalls' = addCalls - 1
    /\ toast' = << Failure("Failed to add product. Please try again.") >>
    /\ loading' = FALSE
    /\ last' = [op |-> "submitRejected", target |-> "form", call |-> <<>>]
    /\ UNCHANGED <<products, processingId, stockCalls, isExporting, exportCalls,
                   formData, dashboardView, reportsView>>

(***************************************************************************)
(* The product lists the views start from.                                 *)
(***************************************************************************)
Product(id, name, sku, quantity, price, reorderLevel) ==
    [id |-> id, name |-> name, sku |-> sku, quantity |-> quantity,
     price |-> price, reorderLevel |-> reorderLevel]

Bolt == Product("p1", "Bolt", "PROD-001", 1, Whole(3), 0)
Nut  == Product("p2", "Nut", "PROD-002", 8, Whole(2), 6)
Gear == Product("p3", "Gear", "PROD-003", 3, Whole(5), 10)

Catalogs == { <<>>, <<Gear>>, <<Bolt, Nut>> }

InitViews ==
    /\ processingId = NULL
    /\ stockCalls = <<>>
    /\ isExporting = NULL
    /\ exportCalls = <<>>
    /\ formData = EmptyForm
    /\ loading = FALSE
    /\ addCalls = 0
    /\ dashboardView = RenderDashboard(products)
    /\ reportsView = RenderReports(products, NULL)
    /\ toast = <<>>
    /\ last = [op |-> "mount", target |-> NULL, call |-> <<>>]

Init ==
    /\ products \in Catalogs
    /\ InitViews

ProductIds == {"p1", "p2", "p3", UnknownId}

\* the clicks the rendered Dashboard handles
DashboardNext ==
    \E i \in DOMAIN products :
        \/ RowClick(i)
        \/ ActionsCellClick(i)
        \/ RestockButtonClick(i)
        \/ SellButtonClick(i)
        \/ ViewButtonClick(i)

\* the host changes the stock of a product
HostNext ==
    \E productId \in ProductIds, delta \in HostDeltas :
        ProductsUpdated(StockCall(productId, delta))

\* handleRestock and handleSell called directly, and their calls settling
HandlersNext ==
    \/ \E productId \in ProductIds : HandleRestock(productId)
    \/ \E productId \in ProductIds : HandleSell(productId)
    \/ \E i \in DOMAIN stockCalls : RestockResolved(i)
    \/ \E i \in DOMAIN stockCalls : RestockRejected(i)
    \/ \E i \in DOMAIN stockCalls : SellResolved(i)
    \/ \E i \in DOMAIN stockCalls : SellRejected(i)

ReportsNext ==
    \/ ExportToPDF
    \/ ExportToExcel
    \/ \E i \in DOMAIN exportCalls : PDFResolved(i)
    \/ \E i \in DOMAIN exportCalls, error \in RejectReasons : PDFRejected(i, error)
    \/ \E i \in DOMAIN exportCalls : ExcelResolved(i)
    \/ \E i \in DOMAIN exportCalls, error \in RejectReasons : ExcelRejected(i, error)

AddProductNext ==
    \/ \E name \in FieldNames : \E value \in TextsFor(name) : HandleInputChange(name, value)
    \/ HandleSubmit
    \/ SubmitResolved
    \/ SubmitRejected

\* the Dashboard over a product list that the host changes
Next == DashboardNext \/ HostNext

Spec == Init /\ [][Next]_vars

\* handleRestock and handleSell as they behave when something calls them
SpecHandlers == Init /\ [][HandlersNext]_vars

\* product lists of every length up to MaxProducts; ids are p1, p2, ... by position
Profiles ==
    { [quantity |-> 0, price |-> Whole(3), reorderLevel |-> 0],
      [quantity |-> 5, price |-> Whole(2), reorderLevel |-> 10],
      [quantity |-> 14, price |-> Whole(1), reorderLevel |-> 10],
      [quantity |-> 16, price |-> Whole(4), reorderLevel |-> 10],
      [quantity |-> 7, price |-> Whole(5), reorderLevel |-> 7] }

ListOf(profiles) ==
    [ i \in 1..Len(profiles) |->
        Product("p" \o ToString(i), "Item " \o ToString(i), "PROD-00" \o ToString(i),
                profiles[i].quantity, profiles[i].price, profiles[i].reorderLevel) ]

ProductLists ==
    UNION { { ListOf(profiles) : profiles \in [1..n -> Profiles] } : n \in 0..MaxProducts }

\* lists of total products of which the first low are low on stock
LowProfile == [quantity |-> 5, price |-> Whole(2), reorderLevel |-> 10]
GoodProfile == [quantity |-> 16, price |-> Whole(4), reorderLevel |-> 10]

StockedLists ==
    { ListOf([i \in 1..total |-> IF i <= low THEN LowProfile ELSE GoodProfile]) :
          <<total, low>> \in { c \in (1..MaxCount) \X (0..MaxCount) : c[2] <= c[1] } }

\* products priced 0.10, 0.20, 0.30 and 2 with one in stock, and one priced 0.10
\* with three in stock
PricedProfiles ==
    { [quantity |-> 1, price |-> price, reorderLevel |-> 2] :
          price \in {Decimal(10, 100), Decimal(20, 100), Decimal(30, 100), Whole(2)} }
        \cup { [quantity |-> 3, price |-> Decimal(10, 100), reorderLevel |-> 2] }

PricedLists ==
    UNION { { ListOf(profiles) : profiles \in [1..n -> PricedProfiles] } :
                n \in 1..MaxProducts }

InitReports ==
    /\ products \in ProductLists \cup StockedLists \cup PricedLists
    /\ InitViews

\* the Reports view (and the Dashboard summary) over a given product list
SpecReports == InitReports /\ [][ReportsNext]_vars

\* two products with one reorder level and any two quantities of the grid
GridPairs ==
    { ListOf(<< [quantity |-> q1, price |-> Whole(1), reorderLevel |-> r],
                [quantity |-> q2, price |-> Whole(1), reorderLevel |-> r] >>) :
          <<q1, q2, r>> \in (0..MaxStock) \X (0..MaxStock) \X (0..MaxReorder) }

InitCatalog ==
    /\ products \in GridPairs \cup PricedLists
    /\ InitViews

\* the Reports view over the products of the grid
SpecCatalog == InitCatalog /\ [][ReportsNext]_vars

InitAddProduct ==
    /\ products = <<>>
    /\ InitViews

\* the AddProduct form
SpecAddProduct == InitAddProduct /\ [][AddProductNext]_vars

(***************************************************************************)
(* The three views together, over one product.                             *)
(***************************************************************************)
InitApp ==
    /\ products = <<Bolt>>
    /\ InitViews

ExportSettles ==
    \E i \in DOMAIN exportCalls :
        \/ PDFResolved(i)
        \/ ExcelResolved(i)
        \/ \E error \in RejectReasons : PDFRejected(i, error) \/ ExcelRejected(i, error)

SubmitSettles == SubmitResolved \/ SubmitRejected

StockSettles ==
    \E i \in DOMAIN stockCalls :
        \/ RestockResolved(i)
        \/ RestockRejected(i)
        \/ SellResolved(i)
        \/ SellRejected(i)

\* the handlers that call a collaborator, each called directly, and the settling
\* of their calls: handleRestock and handleSell (which no rendered element refers
\* to) for the listed product, exportToPDF, exportToExcel and handleSubmit
NextApp ==
    \/ HandleRestock(Bolt.id)
    \/ HandleSell(Bolt.id)
    \/ StockSettles
    \/ ExportToPDF
    \/ ExportToExcel
    \/ ExportSettles
    \/ HandleSubmit
    \/ SubmitSettles

\* the collaborator-calling handlers of the three views over one product
SpecViews == InitApp /\ [][NextApp]_vars

\* every collaborator call that was issued settles
FairSpec ==
    /\ InitApp
    /\ [][NextApp]_vars
    /\ WF_vars(StockSettles)
    /\ WF_vars(ExportSettles)
    /\ WF_vars(SubmitSettles)

(***************************************************************************)
(* Properties.                                                             *)
(***************************************************************************)
Tiers == {"Low Stock", "Medium", "Good"}

Rows == 1..Len(products)

\* C1: for every product the status of getProductStatus and of the Reports row
\* badge is one of Low Stock / Medium / Good, by first match: Low Stock when
\* quantity <= reorderLevel (equality included), else Medium when quantity <=
\* reorderLevel * 1.5, else Good.
C1_StatusByFirstMatch ==
    \A i \in Rows :
        LET q == products[i].quantity
            r == products[i].reorderLevel
            expected == IF q <= r THEN "Low Stock"
                        ELSE IF 10 * q <= 15 * r THEN "Medium"
                        ELSE "Good"
        IN  /\ q >= 0 /\ r >= 0
            /\ getProductStatus(products[i]) \in Tiers
            /\ getProductStatus(products[i]) = expected
            /\ reportsView.rows[i].status = expected
            /\ (q = r => reportsView.rows[i].status = "Low Stock")

\* a product whose stock came down to exactly its positive reorder level shows
\* Low Stock
C1_Witness ==
    /\ last.op = "productsUpdated"
    /\ \E i \in Rows :
        /\ products[i].id = last.target
        /\ products[i].reorderLevel > 0
        /\ products[i].quantity = products[i].reorderLevel
        /\ reportsView.rows[i].status = "Low Stock"

\* C2 as stated: every row of both tables shows classify(quantity, reorderLevel)
\* of the current product, so the Dashboard row and the Reports row agree.
C2_BothViewsShowClassify ==
    \A i \in Rows :
        /\ reportsView.rows[i].status = getProductStatus(products[i])
        /\ dashboardView.rows[i].status = getProductStatus(products[i])
        /\ dashboardView.rows[i].status = reportsView.rows[i].status

\* C2 amended: every row of both tables is derived from the current product: the
\* Reports row shows classify(quantity, reorderLevel); the Dashboard row shows
\* Low Stock exactly when classify is Low Stock and OK for both Medium and Good.
C2_RowsAreFresh ==
    /\ Len(dashboardView.rows) = Len(products)
    /\ Len(reportsView.rows) = Len(products)
    /\ \A i \in Rows :
        LET tier == getProductStatus(products[i]) IN
        /\ dashboardView.rows[i].id = products[i].id
        /\ reportsView.rows[i].id = products[i].id
        /\ dashboardView.rows[i].quantity = products[i].quantity
        /\ reportsView.rows[i].quantity = products[i].quantity
        /\ reportsView.rows[i].status = tier
        /\ dashboardView.rows[i].status = (IF tier = "Low Stock" THEN "Low Stock" ELSE "OK")

\* an update just moved a product from Medium to Low Stock, and both rows show it
C2_Witness ==
    /\ last.op = "productsUpdated"
    /\ \E i \in Rows :
        /\ products[i].id = last.target
        /\ products[i].quantity = products[i].reorderLevel
        /\ 2 * (products[i].quantity + 1) <= 3 * products[i].reorderLevel
        /\ dashboardView.rows[i].status = "Low Stock"
        /\ reportsView.rows[i].status = "Low Stock"

\* C3 as stated: while a call issued by handleRestock / handleSell for a product,
\* or by handleSubmit, has not settled, the same handler, called again, issues no
\* second call for the same target: no two outstanding calls of one handler for
\* one target.
C3_NoSecondCallInFlight ==
    /\ \A i, j \in DOMAIN stockCalls : (stockCalls[i] = stockCalls[j]) => (i = j)
    /\ addCalls <= 1

\* C4 as stated: the sell action on a listed product with quantity above 0 passes
\* the delta -1 for that product to onUpdateStock; on a product with quantity 0
\* it makes no call; the Sell button of a row is disabled exactly when its
\* quantity is 0.
C4_SellStep ==
    (last'.op = "sellClick") =>
        \A i \in Rows :
            (products[i].id = last'.target) =>
                /\ last'.call = IF products[i].quantity > 0
                                THEN <<StockCall(last'.target, -1)>>
                                ELSE <<>>
                /\ products' = products

C4_SellButton ==
    \A i \in Rows : dashboardView.rows[i].sellDisabled <=> (products[i].quantity = 0)

C4_Sell == [][C4_SellStep]_vars /\ []C4_SellButton

\* C5 as stated: the restock action on a listed product passes to onUpdateStock
\* the positive delta max(10, reorderLevel * 2), whatever the current quantity.
C5_RestockStep ==
    (last'.op = "restockClick") =>
        \A i \in Rows :
            (products[i].id = last'.target) =>
                LET r == products[i].reorderLevel
                    delta == IF r <= 5 THEN 10 ELSE r + r
                IN  /\ delta > 0
                    /\ last'.call = <<StockCall(last'.target, delta)>>
                    /\ products' = products

C5_Restock == [][C5_RestockStep]_vars

\* C6: when onAddProduct rejects the form keeps its values and one failure
\* notification is shown; when it resolves all five fields become empty and one
\* success notification is shown; issuing the call shows none.
C6_SubmitStep ==
    /\ (last'.op = "submitRejected") =>
            /\ formData' = formData
            /\ Len(toast') = 1
            /\ toast'[1].type = "error"
    /\ (last'.op = "submitResolved") =>
            /\ \A name \in FieldNames : formData'[name] = <<>>
            /\ Len(toast') = 1
            /\ toast'[1].type = "success"
    /\ (last'.op = "handleSubmit") =>
            /\ formData' = formData
            /\ toast' = <<>>
            /\ addCalls' = addCalls + 1

C6_Submit == [][C6_SubmitStep]_vars

\* a rejected submission left a filled form in place
C6_Witness ==
    /\ last.op = "submitRejected"
    /\ \A name \in FieldNames : formData[name] # <<>>
    /\ Len(toast) = 1
    /\ toast[1].type = "error"

Settled ==
    {"restockResolved", "restockRejected", "sellResolved", "sellRejected"}

\* C7: every settlement of a collaborator call, by success or by failure, shows
\* one notification and clears the in-flight state of its view (nothing is
\* re-thrown past the handler), and when every issued call settles no view stays
\* in flight for ever: each is in its interactive state again and again.
C7_SettleStep ==
    /\ (last'.op \in Settled) =>
            processingId' = NULL /\ Len(toast') = 1
    /\ (last'.op \in {"exportResolved", "exportRejected"}) =>
            isExporting' = NULL /\ Len(toast') = 1
    /\ (last'.op \in {"submitResolved", "submitRejected"}) =>
            loading' = FALSE /\ Len(toast') = 1

C7_ViewsReturn ==
    /\ [][C7_SettleStep]_vars
    /\ []<>(processingId = NULL)
    /\ []<>(isExporting = NULL)
    /\ []<>(loading = FALSE)

\* a failed restock left the Dashboard interactive
C7_Witness ==
    /\ last.op = "restockRejected"
    /\ processingId = NULL
    /\ stockCalls = <<>>
    /\ toast = << Failure("Failed to restock. Please try again.") >>

\* C8 as stated: handleSubmit never passes a NaN quantity, price or reorderLevel
\* to onAddProduct.
C8_NoNaNReachesCollaborator ==
    (last.op = "handleSubmit") =>
        \A k \in 1..Len(last.call) :
            /\ ~last.call[k].quantity.nan
            /\ ~last.call[k].price.nan
            /\ ~last.call[k].reorderLevel.nan

\* sum + quantity * price, exactly
ExactPlus(sum, quantity, price) ==
    CHOOSE number \in
        { AddLimbs(x, TimesLimbs(y, quantity)) : x \in {sum}, y \in {price} } : TRUE

\* the exact sum of quantity * price over the products, after sum
RECURSIVE ExactSum(_, _)
ExactSum(ps, sum) ==
    IF ps = <<>> THEN sum
    ELSE ExactSum(Tail(ps), ExactPlus(sum, Head(ps).quantity, Head(ps).price))

\* the double nearest to the sum of quantity * price over the products
SumOfValues(ps) ==
    CHOOSE number \in { RoundToDouble(x, FALSE) : x \in {ExactSum(ps, Whole(0))} } : TRUE

ClassifiedLow(ps) ==
    Cardinality({ i \in 1..Len(ps) : getProductStatus(ps[i]) = "Low Stock" })

\* C9 as stated: totalCount is the number of products, totalValue the sum of
\* quantity * price (shown formatted, passed to the export as a number),
\* lowStockCount the number of products classified Low Stock (quantity <=
\* reorderLevel); Dashboard and Reports show the same values, and all are 0 for
\* the empty list.
C9_Aggregates ==
    /\ dashboardView.totalProducts = Len(products)
    /\ dashboardView.totalValue = toLocaleString(SumOfValues(products))
    /\ dashboardView.lowStockItems = ClassifiedLow(products)
    /\ dashboardView.lowStockItems =
           Cardinality({ i \in Rows : products[i].quantity <= products[i].reorderLevel })
    /\ reportsView.lowStockAlert = dashboardView.lowStockItems
    /\ \A k \in 1..Len(reportsView.summary) :
           /\ reportsView.summary[k].totalProducts = dashboardView.totalProducts
           /\ reportsView.summary[k].totalValue = dashboardView.totalValue
           /\ reportsView.summary[k].lowStockItems = dashboardView.lowStockItems
    /\ \A k \in 1..Len(last.call) :
           (last.op \in {"exportToPDF", "exportToExcel"}) =>
               /\ last.call[k].data.totalValue = SumOfValues(products)
               /\ Len(last.call[k].data.lowStockProducts) = ClassifiedLow(products)
    /\ (products = <<>>) =>
           /\ dashboardView.totalProducts = 0
           /\ dashboardView.totalValue = "0"
           /\ dashboardView.lowStockItems = 0

\* C10 as stated: with totalCount > 0 the Stock Health shown is the integer
\* round(100 * (totalCount - lowStockCount) / totalCount), in 0..100 (half-way
\* cases rounded up); with totalCount = 0 the summary block is not rendered.
C10_HealthIsRounded ==
    /\ (Len(products) = 0) <=> (reportsView.summary = <<>>)
    /\ \A k \in 1..Len(reportsView.summary) :
           LET h == reportsView.summary[k].stockHealth
               total == Len(products)
               stocked == Len(products) - ClassifiedLow(products)
           IN  /\ h \in 0..100
               /\ (2 * h - 1) * total <= 200 * stocked
               /\ 200 * stocked < (2 * h + 1) * total

Severity(status) ==
    CASE status = "Low Stock" -> 2
      [] status = "Medium" -> 1
      [] status = "Good" -> 0

\* C11: for products with the same reorder level, the one with the larger (or
\* equal) quantity never has the more severe status, by getProductStatus and by
\* the badge the Reports row shows: Low Stock -> Medium -> Good as quantity grows.
C11_StatusIsMonotonic ==
    \A i, j \in Rows :
        (/\ products[i].reorderLevel = products[j].reorderLevel
         /\ products[i].quantity <= products[j].quantity) =>
            /\ Severity(getProductStatus(products[j])) <=
                   Severity(getProductStatus(products[i]))
            /\ Severity(reportsView.rows[j].status) <=
                   Severity(reportsView.rows[i].status)

\* the Reports table shows a Medium row and, for a larger quantity at the same
\* reorder level, a Good row
C11_Witness ==
    /\ last.op = "exportResolved"
    /\ \E i, j \in Rows :
        /\ products[i].reorderLevel = products[j].reorderLevel
        /\ products[i].quantity < products[j].quantity
        /\ reportsView.rows[i].status = "Medium"
        /\ reportsView.rows[j].status = "Good"

\* C12: a product with reorder level 0 is Low Stock when its quantity is 0 and
\* Good for every quantity above 0; it is never Medium.
C12_NoMediumAtZero ==
    \A i \in Rows :
        (products[i].reorderLevel = 0) =>
            LET expected == IF products[i].quantity = 0 THEN "Low Stock" ELSE "Good"
            IN  /\ getProductStatus(products[i]) = expected
                /\ reportsView.rows[i].status = expected

\* the Reports table shows reorder level 0 with quantity 0 as Low Stock and with
\* quantity 1 as Good
C12_Witness ==
    /\ last.op = "exportResolved"
    /\ \E i, j \in Rows :
        /\ products[i].reorderLevel = 0 /\ products[i].quantity = 0
        /\ products[j].reorderLevel = 0 /\ products[j].quantity = 1
        /\ reportsView.rows[i].status = "Low Stock"
        /\ reportsView.rows[j].status = "Good"

\* the products in the order given by a permutation of their positions
Reordered(ps, order) == [ i \in 1..Len(ps) |-> ps[order[i]] ]

\* C13 as stated: the four aggregates computed over any reordering of the product
\* list equal the ones of the list as given: the counts and the Stock Health
\* shown, the total value shown, and the total value passed to the export.
C13_AggregatesIgnoreOrder ==
    \A order \in Permutations(Rows) :
        LET ps == Reordered(products, order) IN
        /\ Len(ps) = dashboardView.totalProducts
        /\ Len(LowStockFilter(ps)) = dashboardView.lowStockItems
        /\ toLocaleString(TotalValue(ps)) = dashboardView.totalValue
        /\ \A k \in 1..Len(reportsView.summary) :
               /\ toLocaleString(TotalValue(ps)) = reportsView.summary[k].totalValue
               /\ StockHealth(ps) = reportsView.summary[k].stockHealth
        /\ \A k \in 1..Len(last.call) :
               (last.op \in {"exportToPDF", "exportToExcel"}) =>
                   TotalValue(ps) = last.call[k].data.totalValue

\* the steps of the views: a handler up to its await, and the handler's reaction
\* to the rejection of its call or to the resolution of a call that does not go
\* to onUpdateStock
ViewSteps ==
    {"handleRestock", "handleSell", "restockRejected", "sellRejected",
     "handleSubmit", "exportToPDF", "exportToExcel",
     "submitResolved", "submitRejected", "exportResolved", "exportRejected"}

\* C14: no step of handleRestock, handleSell, handleSubmit, exportToPDF or
\* exportToExcel changes the product list, whether the call succeeds or fails; the
\* list an export passes on is the list as given; the list changes only when an
\* onUpdateStock call has resolved.
C14_ProductsStep ==
    /\ (last'.op \in ViewSteps) => (products' = products)
    /\ \A k \in 1..Len(last'.call) :
           (last'.op \in {"exportToPDF", "exportToExcel"}) =>
               last'.call[k].data.products = products
    /\ (products' # products) => (last'.op \in {"restockResolved", "sellResolved"})

GenericMessage(kind) ==
    IF kind = "pdf" THEN "Failed to export PDF. Please try again."
    ELSE "Failed to export Excel. Please try again."

SuccessMessage(kind) ==
    IF kind = "pdf" THEN "PDF report exported successfully!"
    ELSE "Excel report exported successfully!"

\* C15: an export that fails shows one error notification: the message of what
\* was thrown, verbatim, when that is an Error, and otherwise the generic message
\* of the export's kind; an export that succeeds shows exactly the success
\* notification of its kind; starting an export shows nothing.
C15_ExportStep ==
    /\ \A i \in DOMAIN exportCalls, error \in RejectReasons :
           (PDFRejected(i, error) \/ ExcelRejected(i, error)) =>
               toast' = << Failure(IF error.isError THEN error.message
                                   ELSE GenericMessage(exportCalls[i])) >>
    /\ (last'.op = "exportRejected") =>
           /\ Len(toast') = 1
           /\ toast'[1].type = "error"
           /\ toast'[1].message \in
                  {GenericMessage(last'.target)} \cup
                  {error.message : error \in {e \in RejectReasons : e.isError}}
    /\ (last'.op = "exportResolved") =>
           toast' = << Success(SuccessMessage(last'.target)) >>
    /\ (last'.op \in {"exportToPDF", "exportToExcel"}) => (toast' = <<>>)

C15_ExportNotifies == [][C15_ExportStep]_vars

\* an Excel export failed with an Error and its message is what is shown
C15_Witness ==
    /\ last.op = "exportRejected"
    /\ last.target = "excel"
    /\ toast = << Failure("Popup blocked") >>
    /\ isExporting = NULL

\* isExporting names the one outstanding ExportService call, and is null when
\* there is none
C16_OneExport ==
    /\ Len(exportCalls) <= 1
    /\ (isExporting = NULL) <=> (exportCalls = <<>>)
    /\ (isExporting # NULL) => (exportCalls = <<isExporting>>)
    /\ isExporting \in {NULL, "pdf", "excel"}

\* exportToPDF or exportToExcel invoked while an export is running calls nothing
\* and leaves isExporting alone; invoked otherwise it issues the call of its kind
C16_InvokeStep ==
    (last'.op \in {"exportToPDF", "exportToExcel"}) =>
        IF isExporting # NULL
        THEN /\ last'.call = <<>>
             /\ isExporting' = isExporting
             /\ exportCalls' = exportCalls
        ELSE /\ Len(last'.call) = 1
             /\ last'.call[1].kind = last'.target
             /\ isExporting' = last'.target
             /\ exportCalls' = <<last'.target>>

\* C16: at most one export is in flight across both kinds; while isExporting is
\* non-null an invocation of exportToPDF or exportToExcel returns without calling
\* ExportService and without changing isExporting; isExporting is 'pdf' or 'excel'
\* exactly while the call of that kind is outstanding.
C16_ExportsAreExclusive == []C16_OneExport /\ [][C16_InvokeStep]_vars

\* a PDF export is outstanding and exportToExcel was invoked and returned
C16_Witness ==
    /\ isExporting = "pdf"
    /\ exportCalls = <<"pdf">>
    /\ last.op = "exportToExcel"
    /\ last.call = <<>>

\* C17: while an onUpdateStock call issued by handleRestock or handleSell is
\* outstanding, processingId is non-null and is the id of a product with an
\* outstanding call; processingId is null only when no call is outstanding.
C17_TokenTracksCalls ==
    /\ (stockCalls # <<>>) =>
           /\ processingId # NULL
           /\ \E i \in DOMAIN stockCalls : stockCalls[i].productId = processingId
    /\ (processingId = NULL) => (stockCalls = <<>>)

====
